---- MODULE Spec2Model ----
(***************************************************************************)
(* Model of the game wishlist bot (src/unnamed/part_000, the current       *)
(* revision of src/index.ts): the two wishlist collections and the search  *)
(* cache with their durable files, the wishlist command handler, the       *)
(* autocomplete handler and the messageReactionAdd handler.  Handlers are  *)
(* async functions: each action below is the code that runs between two    *)
(* awaits of one handler, so handlers interleave at their awaits only.     *)
(***************************************************************************)
EXTENDS Integers, Sequences, FiniteSets, TLC

\* ------------------------------------------------------------------ bounds
\* Number of gateway events (commands, autocompletes, reactions) delivered.
MaxHandlers == 2
\* Longest collection drawn as an input of the removal specification.
MaxListLen == 2
\* Longest category list drawn as an input of the classification specification.
MaxTags == 2

\* ------------------------------------------------------------- text helpers
\* Strings are sequences of one-character strings.
UpperChars == <<"A","B","C","D","E","F","G","H","I","J","K","L","M",
                "N","O","P","Q","R","S","T","U","V","W","X","Y","Z">>
LowerChars == <<"a","b","c","d","e","f","g","h","i","j","k","l","m",
                "n","o","p","q","r","s","t","u","v","w","x","y","z">>
DigitChars == <<"0","1","2","3","4","5","6","7","8","9">>

IndexIn(seq, c) == CHOOSE i \in 1..Len(seq) : seq[i] = c
IsIn(seq, c) == \E i \in 1..Len(seq) : seq[i] = c

toLowerChar(c) == IF IsIn(UpperChars, c) THEN LowerChars[IndexIn(UpperChars, c)] ELSE c
toUpperChar(c) == IF IsIn(LowerChars, c) THEN UpperChars[IndexIn(LowerChars, c)] ELSE c

\* String.prototype.toLowerCase
toLowerCase(s) == [i \in 1..Len(s) |-> toLowerChar(s[i])]

IsSpace(c) == c = " "
\* \w of a JavaScript regular expression
IsWordChar(c) == IsIn(UpperChars, c) \/ IsIn(LowerChars, c) \/ IsIn(DigitChars, c) \/ c = "_"

RECURSIVE trimStart(_)
trimStart(s) == IF s # <<>> /\ IsSpace(Head(s)) THEN trimStart(Tail(s)) ELSE s
RECURSIVE trimEnd(_)
trimEnd(s) == IF s # <<>> /\ IsSpace(s[Len(s)]) THEN trimEnd(SubSeq(s, 1, Len(s) - 1)) ELSE s
\* String.prototype.trim
trim(s) == trimEnd(trimStart(s))

\* String.prototype.includes
includes(s, sub) ==
  \E i \in 1..(Len(s) - Len(sub) + 1) : SubSeq(s, i, i + Len(sub) - 1) = sub

\* String.prototype.substring(0, n)
substring0(s, n) == IF Len(s) <= n THEN s ELSE SubSeq(s, 1, n)

\* Template literal `${n}` of a non-negative integer: its decimal digits.
RECURSIVE numberToString(_)
numberToString(n) ==
  IF n < 10 THEN <<DigitChars[n + 1]>>
  ELSE numberToString(n \div 10) \o <<DigitChars[(n % 10) + 1]>>

\* parseInt of a string of decimal digits
RECURSIVE parseInt(_)
parseInt(s) ==
  IF s = <<>> THEN 0
  ELSE 10 * parseInt(SubSeq(s, 1, Len(s) - 1)) + (IndexIn(DigitChars, s[Len(s)]) - 1)

StoreHost == <<"h","t","t","p","s",":","/","/","s","t","o","r","e",".",
               "s","t","e","a","m","p","o","w","e","r","e","d",".","c","o","m">>
AppPath == <<"/","a","p","p","/">>
\* `https://store.steampowered.com/app/${appid}`
storeUrl(appid) == StoreHost \o AppPath \o numberToString(appid)

\* The run of digits at the start of s.
RECURSIVE leadingDigits(_)
leadingDigits(s) ==
  IF s # <<>> /\ IsIn(DigitChars, Head(s)) THEN <<Head(s)>> \o leadingDigits(Tail(s)) ELSE <<>>

\* url.match(/\/app\/(\d+)/): the positions right after a "/app/" that is
\* followed by a digit; the match is the leftmost one.
AppMatchStarts(url) ==
  { i \in 1..Len(url) :
      /\ i + Len(AppPath) <= Len(url)
      /\ SubSeq(url, i, i + Len(AppPath) - 1) = AppPath
      /\ IsIn(DigitChars, url[i + Len(AppPath)]) }
NoMatch == <<>>
appidMatch(url) ==
  IF AppMatchStarts(url) = {} THEN NoMatch
  ELSE LET i == CHOOSE j \in AppMatchStarts(url) : \A k \in AppMatchStarts(url) : j <= k
       IN leadingDigits(SubSeq(url, i + Len(AppPath), Len(url)))

\* title.replace(/\w\S*/g, w => w.charAt(0).toUpperCase() + w.slice(1).toLowerCase())
RECURSIVE titleCaseFrom(_, _)
titleCaseFrom(s, inWord) ==
  IF s = <<>> THEN <<>>
  ELSE LET c == Head(s) IN
       IF inWord
       THEN IF IsSpace(c) THEN <<c>> \o titleCaseFrom(Tail(s), FALSE)
            ELSE <<toLowerChar(c)>> \o titleCaseFrom(Tail(s), TRUE)
       ELSE IF IsWordChar(c) THEN <<toUpperChar(c)>> \o titleCaseFrom(Tail(s), TRUE)
            ELSE <<c>> \o titleCaseFrom(Tail(s), FALSE)
MaxChannelNameLen == 90
capitalizeName(title) == substring0(titleCaseFrom(title, FALSE), MaxChannelNameLen)
GameVoice == <<"G","a","m","e"," ","V","o","i","c","e">>

\* ------------------------------------------------------------ the catalog
\* What the store's search endpoint can answer: items {name, id}.
ItemA == [name |-> <<"A">>, id |-> 7]
ItemB == [name |-> <<"b">>, id |-> 12]
SearchAnswers == { <<>>, <<ItemA>>, <<ItemB, ItemA>> }
\* The texts users type into the command's game option.
Queries == { <<"A">>, <<"a", " ">> }

SinglePlayerTag == <<"S","i","n","g","l","e","-","p","l","a","y","e","r">>
OnlineCoopTag == <<"O","n","l","i","n","e"," ","C","o","-","o","p">>
\* game.categories mapped to their descriptions, as the detail endpoint answers.
CategoryAnswers == { <<>>, <<SinglePlayerTag>>, <<SinglePlayerTag, OnlineCoopTag>> }
\* game.name of the detail record of an appid.
DetailName(appid) == IF appid = ItemA.id THEN ItemA.name ELSE ItemB.name

\* --------------------------------------------------------------- the guild
Users == {"u1", "u2", "r1", "b1"}
BotsRole == <<"B","o","t","s">>
IsBotUser(u) == u = "b1"
RoleNames(u) == IF u = "r1" THEN {BotsRole} ELSE {}
Emojis == {"e1", "e2"}
\* The members that may leave the guild during a run.
Leavers == {"u2"}

\* ------------------------------------------------------------- classifier
SingleNeedle == <<"s","i","n","g","l","e","-","p","l","a","y","e","r">>
MultiNeedle == <<"m","u","l","t","i","p","l","a","y","e","r">>
CoopNeedle == <<"c","o","-","o","p">>
CrossNeedle == <<"c","r","o","s","s","-","p","l","a","t","f","o","r","m">>
\* Mutant: the single-player test comes first.
getGameTypeSingleFirst(categories) ==
  LET lower == [i \in 1..Len(categories) |-> toLowerCase(categories[i])]
      isSingle == \E i \in 1..Len(lower) : lower[i] = SingleNeedle
      isMulti == \E i \in 1..Len(lower) :
                   \/ includes(lower[i], MultiNeedle)
                   \/ includes(lower[i], CoopNeedle)
                   \/ includes(lower[i], CrossNeedle)
  IN IF isSingle THEN "single" ELSE IF isMulti THEN "multi" ELSE "unknown"
\* Mutant: a tag that merely contains 'single-player' counts as single.
getGameTypeLooseSingle(categories) ==
  LET lower == [i \in 1..Len(categories) |-> toLowerCase(categories[i])]
      isSingle == \E i \in 1..Len(lower) : includes(lower[i], SingleNeedle)
      isMulti == \E i \in 1..Len(lower) :
                   \/ includes(lower[i], MultiNeedle)
                   \/ includes(lower[i], CoopNeedle)
                   \/ includes(lower[i], CrossNeedle)
  IN IF isMulti THEN "multi" ELSE IF isSingle THEN "single" ELSE "unknown"
getGameType(categories) ==
  LET lower == [i \in 1..Len(categories) |-> toLowerCase(categories[i])]
      isSingle == \E i \in 1..Len(lower) : lower[i] = SingleNeedle
      isMulti == \E i \in 1..Len(lower) :
                   \/ includes(lower[i], MultiNeedle)
                   \/ includes(lower[i], CoopNeedle)
                   \/ includes(lower[i], CrossNeedle)
  IN IF isMulti THEN "multi" ELSE IF isSingle THEN "single" ELSE "unknown"

\* ------------------------------------------------------------ the resolver
SearchPrefix == <<"s","e","a","r","c","h",":">>
cacheKey(query) == SearchPrefix \o trim(toLowerCase(query))
MaxResults == 10
\* items.slice(0, 10).map(item => ({name, appid, url}))
searchResults(items) ==
  LET kept == substring0(items, MaxResults)
  IN [i \in 1..Len(kept) |->
        [name |-> kept[i].name, appid |-> kept[i].id, url |-> storeUrl(kept[i].id)]]
\* steamCache[cacheKey] = results
cachePut(cache, key, results) ==
  [k \in (DOMAIN cache) \cup {key} |-> IF k = key THEN results ELSE cache[k]]
\* Mutant: an empty cached array counts as a miss.
cacheHitNonEmpty(cache, key) == key \in DOMAIN cache /\ cache[key] # <<>>
\* if (steamCache[cacheKey]): an array, empty or not, is truthy
cacheHit(cache, key) == key \in DOMAIN cache
NoGame == [name |-> <<>>, appid |-> 0]
\* matches.find(m => m.name.toLowerCase() === gameName.toLowerCase()) || matches[0]
pickGame(matches, gameName) ==
  LET exact == { i \in 1..Len(matches) : toLowerCase(matches[i].name) = toLowerCase(gameName) }
  IN IF exact # {}
     THEN LET i == CHOOSE j \in exact : \A k \in exact : j <= k
          IN [name |-> matches[i].name, appid |-> matches[i].appid]
     ELSE IF matches # <<>>
          THEN [name |-> matches[1].name, appid |-> matches[1].appid]
          ELSE NoGame

\* ---------------------------------------------------------- wishlist store
Suggester == "u1"
newEntry(game) == [name |-> game.name, appid |-> game.appid, suggester |-> Suggester]
\* list.some(g => g.appid === appid)
hasAppid(list, appid) == \E i \in 1..Len(list) : list[i].appid = appid
\* Mutant: the filter keeps the entries it should drop.
keepsEntryInverted(g, appid) == g.appid = appid
keepsEntry(g, appid) == g.appid # appid
\* Mutant: only the first entry with the appid is removed.
RECURSIVE removeFirstByAppid(_, _)
removeFirstByAppid(list, appid) ==
  IF list = <<>> THEN <<>>
  ELSE IF Head(list).appid = appid THEN Tail(list)
  ELSE <<Head(list)>> \o removeFirstByAppid(Tail(list), appid)
\* list.filter(g => g.appid !== appid)
removeByAppid(list, appid) == SelectSeq(list, LAMBDA g : keepsEntry(g, appid))
\* Mutant: the dup test looks in the collection the entry does not go to.
isDupSwapped(type, single, multi, appid) ==
  IF type = "single" \/ type = "both" THEN hasAppid(multi, appid) ELSE hasAppid(single, appid)
\* Mutant: the dup test looks in both collections.
isDupGlobal(type, single, multi, appid) == hasAppid(single, appid) \/ hasAppid(multi, appid)
\* the dup test of the command handler (lines 160-162)
isDup(type, single, multi, appid) ==
  IF type = "single" \/ type = "both" THEN hasAppid(single, appid) ELSE hasAppid(multi, appid)
\* Mutant: the entry is pushed before the dup test is looked at.
storeAfterNoDup(which, type, dup, list, entry) ==
  IF type # "unknown" /\ type = which THEN Append(list, entry) ELSE list
\* Lines 155-168 for the collection `which`: the entry is pushed when the type
\* is known, the dup test said no and the type is this collection's.
storeAfter(which, type, dup, list, entry) ==
  IF type # "unknown" /\ ~dup /\ type = which THEN Append(list, entry) ELSE list

\* ----------------------------------------------------------- quorum test
\* members.filter(m => !m.user.bot && !m.roles.cache.some(role includes 'bot')).size
BotNeedle == <<"b","o","t">>
isHuman(m) == ~IsBotUser(m) /\ ~(\E r \in RoleNames(m) : includes(toLowerCase(r), BotNeedle))
countHumans(mems) == Cardinality({ m \in mems : isHuman(m) })
\* Mutant: bots are counted among the reactors.
addReactorsAll(uniq, users) == uniq \cup users
\* users.forEach(u => { if (!u.bot) uniqueReactors.add(u.id) })
addReactors(uniq, users) == uniq \cup { u \in users : ~IsBotUser(u) }
\* Mutant: the test is off by one.
hasQuorumOffByOne(uniq, total) == Cardinality(uniq) + 1 >= total
hasQuorum(uniq, total) == Cardinality(uniq) >= total

\* ------------------------------------------------------------------ state
VARIABLES
  singleList,     \* let singleList: WishlistEntry[]
  multiList,      \* let multiList: WishlistEntry[]
  diskSingle,     \* wishlist_single.json
  diskMulti,      \* wishlist_multi.json
  steamCache,     \* let steamCache: Record<string, results>
  diskCache,      \* steam_cache.json
  messages,       \* the guild's messages: embed url and title, reactions, deleted
  voiceChannels,  \* names of the guild's voice channels, in creation order
  members,        \* the guild's current members
  memberCache,    \* guild.members.cache
  handlers,       \* the handlers in flight, oldest first: position and locals of each
  delivered,      \* number of events delivered so far
  lastOut,        \* how the handler that ended last ended: its reply, or what it did
  rmIn,           \* removal specification: the two collections as drawn
  rmSingle,       \* removal specification: singleList after rmStage removals
  rmMulti,        \* removal specification: multiList after rmStage removals
  rmId,           \* removal specification: the appid removed
  rmStage,        \* removal specification: number of removals applied
  clsIn,          \* classification specification: the categories as drawn
  clsType,        \* classification specification: what getGameType returned
  clsSingle,      \* classification specification: singleList around lines 155-168
  clsMulti        \* classification specification: multiList around lines 155-168

botVars == <<singleList, multiList, diskSingle, diskMulti, steamCache, diskCache,
             messages, voiceChannels, members, memberCache, handlers, delivered, lastOut>>
rmVars == <<rmIn, rmSingle, rmMulti, rmId, rmStage>>
clsVars == <<clsIn, clsType, clsSingle, clsMulti>>
pureVars == <<rmVars, clsVars>>
vars == <<singleList, multiList, diskSingle, diskMulti, steamCache, diskCache,
          messages, voiceChannels, members, memberCache, handlers, delivered, lastOut,
          rmIn, rmSingle, rmMulti, rmId, rmStage,
          clsIn, clsType, clsSingle, clsMulti>>
storeVars == <<singleList, multiList, diskSingle, diskMulti>>
cacheVars == <<steamCache, diskCache>>
guildVars == <<members, memberCache>>

\* A handler's locals before it has set any of them.
H0 == [kind |-> "none", pc |-> "done", query |-> <<>>, game |-> NoGame, type |-> "none",
       msg |-> 0, total |-> 0, uniq |-> {}, idx |-> 0, out |-> "none"]
\* The handler returns (or rejects) with outcome out: its locals go out of scope.
Finish(h, out) == [H0 EXCEPT !.out = out]
removeAt(seq, i) == [k \in 1..(Len(seq) - 1) |-> IF k < i THEN seq[k] ELSE seq[k + 1]]
\* Handler i goes on as record rec; one that has ended leaves its outcome.
Put(i, rec) ==
  /\ handlers' = IF rec.pc = "done" THEN removeAt(handlers, i) ELSE [handlers EXCEPT ![i] = rec]
  /\ lastOut' = IF rec.pc = "done" THEN rec.out ELSE lastOut
  /\ UNCHANGED delivered
\* A new event's handler runs to its first await, or to its end.
Start(rec) ==
  /\ delivered < MaxHandlers
  /\ delivered' = delivered + 1
  /\ handlers' = IF rec.pc = "done" THEN handlers ELSE Append(handlers, rec)
  /\ lastOut' = IF rec.pc = "done" THEN rec.out ELSE lastOut

EmptyCache == [k \in {} |-> <<>>]
EntryA == [name |-> ItemA.name, appid |-> ItemA.id, suggester |-> Suggester]
\* A message of the guild that the bot did not post: no embed.
PlainMessage == [channel |-> "chat", url |-> <<>>, title |-> <<>>, reacts |-> <<>>, deleted |-> FALSE]
\* The announcement postGameEmbed sends for an appid to the display channel
\* of a collection ("single" or "multi").
announcement(channel, appid) ==
  [channel |-> channel, url |-> storeUrl(appid), title |-> DetailName(appid),
   reacts |-> <<>>, deleted |-> FALSE]

RmIdle ==
  /\ rmIn = [single |-> <<>>, multi |-> <<>>]
  /\ rmSingle = <<>> /\ rmMulti = <<>> /\ rmId = 0 /\ rmStage = 0
ClsIdle ==
  /\ clsIn = <<>> /\ clsType = "none" /\ clsSingle = <<>> /\ clsMulti = <<>>

\* A first start: no state files, lists and cache empty (lines 29-35).
InitFresh ==
  /\ singleList = <<>> /\ multiList = <<>>
  /\ diskSingle = <<>> /\ diskMulti = <<>>
  /\ steamCache = EmptyCache /\ diskCache = EmptyCache
  /\ messages = <<PlainMessage>>
  /\ voiceChannels = <<>>
\* A restart: the files of an earlier run hold one multiplayer entry whose
\* announcement is still up, with one member's reaction on it.
InitRestart ==
  /\ singleList = <<>> /\ multiList = <<EntryA>>
  /\ diskSingle = <<>> /\ diskMulti = <<EntryA>>
  /\ steamCache = cachePut(EmptyCache, cacheKey(ItemA.name), searchResults(<<ItemA>>))
  /\ diskCache = steamCache
  /\ messages = <<[announcement("multi", ItemA.id) EXCEPT !.reacts = <<[emoji |-> "e1", users |-> {"u1"}]>>]>>
  /\ voiceChannels = <<>>
\* A restart after the same title was completed once and submitted again:
\* the voice channel of the first completion exists in the guild, under the
\* name guild.channels.create was given.
InitResubmitted ==
  /\ singleList = <<>> /\ multiList = <<EntryA>>
  /\ diskSingle = <<>> /\ diskMulti = <<EntryA>>
  /\ steamCache = cachePut(EmptyCache, cacheKey(ItemA.name), searchResults(<<ItemA>>))
  /\ diskCache = steamCache
  /\ messages = <<[announcement("multi", ItemA.id) EXCEPT !.reacts = <<[emoji |-> "e1", users |-> {"u1"}]>>]>>
  /\ voiceChannels = <<capitalizeName(DetailName(ItemA.id))>>

InitGuild ==
  /\ members = Users
  /\ memberCache = Users
  /\ handlers = <<>>
  /\ delivered = 0
  /\ lastOut = "none"

Init ==
  /\ InitFresh \/ InitRestart \/ InitResubmitted
  /\ InitGuild
  /\ RmIdle
  /\ ClsIdle

\* ------------------------------------------------- the wishlist command
\* Lines 143-152 after searchSteamGame has answered: pick the game, then
\* either reply "not found" or call fetchSteamDetails.
afterSearch(h, matches) ==
  LET g == pickGame(matches, h.query)
  IN IF h.kind = "auto" THEN Finish(h, "responded")
     ELSE IF g = NoGame THEN Finish(h, "not_found")
     ELSE [h EXCEPT !.pc = "details_wait", !.game = g]

\* searchSteamGame up to its fetch (lines 46-52), by the handler record h.
startSearch(h) ==
  IF cacheHit(steamCache, cacheKey(h.query))
  THEN afterSearch(h, steamCache[cacheKey(h.query)])
  ELSE [h EXCEPT !.pc = "search_wait"]

\* interactionCreate with the wishlist command (lines 131-142).
Submit(q, inChannel) ==
  /\ LET h == [H0 EXCEPT !.kind = "submit", !.query = q]
     IN Start(IF ~inChannel THEN Finish(h, "wrong_channel") ELSE startSearch(h))
  /\ UNCHANGED <<storeVars, cacheVars, messages, voiceChannels, guildVars, pureVars>>

\* interactionCreate with an autocomplete interaction (lines 118-129).
Autocomplete(q) ==
  /\ Start(startSearch([H0 EXCEPT !.kind = "auto", !.query = q]))
  /\ UNCHANGED <<storeVars, cacheVars, messages, voiceChannels, guildVars, pureVars>>

\* Mutant: a failed search caches its empty result.
SearchFailCached(i) ==
  /\ handlers[i].pc = "search_wait"
  /\ steamCache' = cachePut(steamCache, cacheKey(handlers[i].query), <<>>)
  /\ diskCache' = steamCache'
  /\ Put(i, afterSearch(handlers[i], <<>>))
  /\ UNCHANGED <<storeVars, messages, voiceChannels, guildVars, pureVars>>

\* The search fetch fails: timeout, non-2xx, transport or parse error (lines 57, 64-67).
SearchFail(i) ==
  /\ handlers[i].pc = "search_wait"
  /\ Put(i, afterSearch(handlers[i], <<>>))
  /\ UNCHANGED <<storeVars, cacheVars, messages, voiceChannels, guildVars, pureVars>>

\* The search fetch answers (lines 58-63), then the caller goes on.
SearchOk(i, items) ==
  /\ handlers[i].pc = "search_wait"
  /\ LET results == searchResults(items)
     IN /\ steamCache' = cachePut(steamCache, cacheKey(handlers[i].query), results)
        /\ diskCache' = steamCache'
        /\ Put(i, afterSearch(handlers[i], results))
  /\ UNCHANGED <<storeVars, messages, voiceChannels, guildVars, pureVars>>

\* Mutant: fetchSteamDetails has no try/catch, so the handler rejects unreplied.
DetailsThrows(i, why) ==
  /\ handlers[i].pc = "details_wait"
  /\ why \in {"error", "absent"}
  /\ Put(i, Finish(handlers[i], IF why = "error" THEN "details_rejected" ELSE "no_details"))
  /\ UNCHANGED <<storeVars, cacheVars, messages, voiceChannels, guildVars, pureVars>>

\* fetchSteamDetails answers null: a transport error or no record (lines 75, 85-87).
DetailsNull(i, why) ==
  /\ handlers[i].pc = "details_wait"
  /\ why \in {"error", "absent"}
  /\ Put(i, Finish(handlers[i], "no_details"))
  /\ UNCHANGED <<storeVars, cacheVars, messages, voiceChannels, guildVars, pureVars>>

\* fetchSteamDetails answers a record: classify, dup test, push, then
\* postGameEmbed's channel fetch (lines 154-168, 100).
DetailsOk(i, categories) ==
  /\ handlers[i].pc = "details_wait"
  /\ LET h == handlers[i]
         type == getGameType(categories)
         dup == type # "unknown" /\ isDup(type, singleList, multiList, h.game.appid)
     IN /\ singleList' = storeAfter("single", type, dup, singleList, newEntry(h.game))
        /\ multiList' = storeAfter("multi", type, dup, multiList, newEntry(h.game))
        /\ Put(i, IF type = "unknown" THEN Finish(h, "unknown_type")
                  ELSE IF dup THEN Finish(h, "duplicate")
                  ELSE [h EXCEPT !.pc = "post_channel", !.type = type])
  /\ UNCHANGED <<diskSingle, diskMulti, cacheVars, messages, voiceChannels, guildVars, pureVars>>

\* saveLists (lines 37-40), then the reply of line 171.
saveAndAck(i) ==
  /\ diskSingle' = singleList
  /\ diskMulti' = multiList
  /\ Put(i, Finish(handlers[i], "ack"))

\* client.channels.fetch of postGameEmbed (lines 100-101).
PostChannel(i, outcome) ==
  /\ handlers[i].pc = "post_channel"
  /\ outcome \in {"throw", "not_text", "ok"}
  /\ CASE outcome = "throw" ->
            /\ Put(i, Finish(handlers[i], "post_rejected"))
            /\ UNCHANGED <<diskSingle, diskMulti>>
       [] outcome = "not_text" -> saveAndAck(i)
       [] outcome = "ok" ->
            /\ Put(i, [handlers[i] EXCEPT !.pc = "post_details"])
            /\ UNCHANGED <<diskSingle, diskMulti>>
  /\ UNCHANGED <<singleList, multiList, cacheVars, messages, voiceChannels, guildVars, pureVars>>

\* fetchSteamDetails of postGameEmbed (lines 102-103).
PostDetails(i, found) ==
  /\ handlers[i].pc = "post_details"
  /\ IF found
     THEN /\ Put(i, [handlers[i] EXCEPT !.pc = "post_send"])
          /\ UNCHANGED <<diskSingle, diskMulti>>
     ELSE saveAndAck(i)
  /\ UNCHANGED <<singleList, multiList, cacheVars, messages, voiceChannels, guildVars, pureVars>>

\* channel.send of postGameEmbed (line 114), then lines 170-171.
PostSend(i, sent) ==
  /\ handlers[i].pc = "post_send"
  /\ IF sent
     THEN /\ messages' = Append(messages, announcement(handlers[i].type, handlers[i].game.appid))
          /\ saveAndAck(i)
     ELSE /\ Put(i, Finish(handlers[i], "post_rejected"))
          /\ UNCHANGED <<messages, diskSingle, diskMulti>>
  /\ UNCHANGED <<singleList, multiList, cacheVars, voiceChannels, guildVars, pureVars>>

\* ------------------------------------------------ the reaction handler
\* The platform records user u's reaction e on message m: a new reaction
\* type is appended to the message's reaction map, which keeps insertion order.
withReaction(reacts, e, u) ==
  IF \E k \in 1..Len(reacts) : reacts[k].emoji = e
  THEN [k \in 1..Len(reacts) |->
          IF reacts[k].emoji = e THEN [reacts[k] EXCEPT !.users = @ \cup {u}] ELSE reacts[k]]
  ELSE Append(reacts, [emoji |-> e, users |-> {u}])
hasReacted(reacts, e, u) == \E k \in 1..Len(reacts) : reacts[k].emoji = e /\ u \in reacts[k].users
\* Every user with a reaction of any type on the message.
reactorsOf(m) == UNION { messages[m].reacts[k].users : k \in 1..Len(messages[m].reacts) }

\* messageReactionAdd (lines 174-182): a bot's reaction ends the handler at
\* once, any other starts the member fetch.
ReactionAdd(u, m, e) ==
  /\ m \in 1..Len(messages)
  /\ ~messages[m].deleted
  /\ u \in members
  /\ ~hasReacted(messages[m].reacts, e, u)
  /\ messages' = [messages EXCEPT ![m].reacts = withReaction(@, e, u)]
  /\ LET h == [H0 EXCEPT !.kind = "react", !.msg = m]
     IN Start(IF IsBotUser(u) THEN Finish(h, "ignored") ELSE [h EXCEPT !.pc = "members_wait"])
  /\ UNCHANGED <<storeVars, cacheVars, voiceChannels, guildVars, pureVars>>

\* guild.members.fetch answers or fails (lines 180-190); the loop of line 193
\* then starts its first react.users.fetch.
MembersFetched(i, ok) ==
  /\ handlers[i].pc = "members_wait"
  /\ LET mems == IF ok THEN members ELSE memberCache
     IN /\ memberCache' = mems
        /\ Put(i, [handlers[i] EXCEPT !.pc = "reactors_wait", !.total = countHumans(mems)])
  /\ UNCHANGED <<storeVars, cacheVars, messages, voiceChannels, members, pureVars>>

\* Line 212-213: the name of the voice channel and whether one exists.
channelName(title) == capitalizeName(title)
channelExists(chans, name) == \E k \in 1..Len(chans) : chans[k] = toLowerCase(name)

\* Mutant: the channel is provisioned without the isMultiGame test.
afterQuorumNoMultiTest(h, msg) ==
  LET match == appidMatch(msg.url)
  IN IF match # NoMatch /\ ~channelExists(voiceChannels, channelName(msg.title))
     THEN [h EXCEPT !.pc = "create_wait"]
     ELSE [h EXCEPT !.pc = "delete_wait"]
\* The quorum branch up to its first await (lines 200-216), for handler
\* record h on message msg: the handler's next position.
afterQuorum(h, msg) ==
  LET match == appidMatch(msg.url)
      appid == parseInt(match)
  IN IF match # NoMatch /\ hasAppid(multiList, appid)
        /\ ~channelExists(voiceChannels, channelName(msg.title))
     THEN [h EXCEPT !.pc = "create_wait"]
     ELSE [h EXCEPT !.pc = "delete_wait"]

\* One react.users.fetch of the loop answers (lines 193-198); after the last
\* reaction type the quorum test and, on quorum, the removal (lines 200-209).
ReactorsFetched(i) ==
  /\ handlers[i].pc = "reactors_wait"
  /\ LET h == handlers[i]
         msg == messages[h.msg]
         uniq == addReactors(h.uniq, msg.reacts[h.idx + 1].users)
         h2 == [h EXCEPT !.uniq = uniq, !.idx = h.idx + 1]
         match == appidMatch(msg.url)
         appid == parseInt(match)
     IN IF msg.deleted
        THEN \* the fetch is answered "unknown message": the handler rejects
             /\ Put(i, Finish(h, "fetch_rejected"))
             /\ UNCHANGED storeVars
        ELSE IF h.idx + 1 < Len(msg.reacts)
        THEN /\ Put(i, h2)
             /\ UNCHANGED storeVars
        ELSE IF ~hasQuorum(uniq, h.total)
        THEN /\ Put(i, Finish(h, "no_quorum"))
             /\ UNCHANGED storeVars
        ELSE /\ Put(i, afterQuorum(h2, msg))
             /\ IF match # NoMatch
                THEN /\ singleList' = removeByAppid(singleList, appid)
                     /\ multiList' = removeByAppid(multiList, appid)
                     /\ diskSingle' = singleList'
                     /\ diskMulti' = multiList'
                ELSE UNCHANGED storeVars
  /\ UNCHANGED <<cacheVars, messages, voiceChannels, guildVars, pureVars>>

\* guild.channels.create answers or throws (lines 216-225).
ChannelCreated(i, ok) ==
  /\ handlers[i].pc = "create_wait"
  /\ LET name == channelName(messages[handlers[i].msg].title)
     IN voiceChannels' = IF ok THEN Append(voiceChannels, IF name = <<>> THEN GameVoice ELSE name)
                               ELSE voiceChannels
  /\ Put(i, [handlers[i] EXCEPT !.pc = "delete_wait"])
  /\ UNCHANGED <<storeVars, cacheVars, messages, guildVars, pureVars>>

\* Mutant: the delete sits inside the appidMatch branch.
MessageDeleteLinked(i, ok) ==
  /\ handlers[i].pc = "delete_wait"
  /\ LET m == handlers[i].msg
     IN IF appidMatch(messages[m].url) = NoMatch
        THEN /\ Put(i, Finish(handlers[i], "not_deleted"))
             /\ UNCHANGED messages
        ELSE IF ok /\ ~messages[m].deleted
        THEN /\ messages' = [messages EXCEPT ![m].deleted = TRUE]
             /\ Put(i, Finish(handlers[i], "deleted"))
        ELSE /\ Put(i, Finish(handlers[i], "delete_failed"))
             /\ UNCHANGED messages
  /\ UNCHANGED <<storeVars, cacheVars, voiceChannels, guildVars, pureVars>>

\* reaction.message.delete() answers or fails; a failure is swallowed (line 229).
MessageDelete(i, ok) ==
  /\ handlers[i].pc = "delete_wait"
  /\ LET m == handlers[i].msg
     IN IF ok /\ ~messages[m].deleted
        THEN /\ messages' = [messages EXCEPT ![m].deleted = TRUE]
             /\ Put(i, Finish(handlers[i], "deleted"))
        ELSE /\ Put(i, Finish(handlers[i], "delete_failed"))
             /\ UNCHANGED messages
  /\ UNCHANGED <<storeVars, cacheVars, voiceChannels, guildVars, pureVars>>

\* A member leaves the guild; the member cache learns of it from the
\* gateway event, or misses the event and stays stale.
MemberLeave(u, seen) ==
  /\ u \in members
  /\ members' = members \ {u}
  /\ memberCache' = IF seen THEN memberCache \ {u} ELSE memberCache
  /\ UNCHANGED <<storeVars, cacheVars, messages, voiceChannels, handlers, delivered, lastOut, pureVars>>

Running == 1..Len(handlers)

Next ==
  \/ \E q \in Queries, c \in BOOLEAN : Submit(q, c)
  \/ \E q \in Queries : Autocomplete(q)
  \/ \E i \in Running : SearchFail(i)
  \/ \E i \in Running, items \in SearchAnswers : SearchOk(i, items)
  \/ \E i \in Running, why \in {"error", "absent"} : DetailsNull(i, why)
  \/ \E i \in Running, cats \in CategoryAnswers : DetailsOk(i, cats)
  \/ \E i \in Running, o \in {"throw", "not_text", "ok"} : PostChannel(i, o)
  \/ \E i \in Running, b \in BOOLEAN : PostDetails(i, b)
  \/ \E i \in Running, b \in BOOLEAN : PostSend(i, b)
  \/ \E u \in Users, m \in 1..Len(messages), e \in Emojis : ReactionAdd(u, m, e)
  \/ \E i \in Running, b \in BOOLEAN : MembersFetched(i, b)
  \/ \E i \in Running : ReactorsFetched(i)
  \/ \E i \in Running, b \in BOOLEAN : ChannelCreated(i, b)
  \/ \E i \in Running, b \in BOOLEAN : MessageDelete(i, b)
  \/ \E u \in Leavers, b \in BOOLEAN : MemberLeave(u, b)

Spec == Init /\ [][Next]_vars

\* ------------------------------------------- the removal, taken alone
\* Lines 207-208 applied to collections drawn from a bounded set: the
\* entries may repeat an appid, and the appid removed may be absent.
EntryB == [name |-> ItemB.name, appid |-> ItemB.id, suggester |-> Suggester]
EntryA2 == [name |-> ItemA.name, appid |-> ItemA.id, suggester |-> "u2"]
RmEntries == {EntryA, EntryB, EntryA2}
RmLists == UNION { [1..n -> RmEntries] : n \in 0..MaxListLen }
RmIds == {ItemA.id, ItemB.id, 99}

InitRemove ==
  /\ InitFresh
  /\ InitGuild
  /\ rmIn \in [single : RmLists, multi : RmLists]
  /\ rmSingle = rmIn.single
  /\ rmMulti = rmIn.multi
  /\ rmId \in RmIds
  /\ rmStage = 0
  /\ ClsIdle

\* singleList = singleList.filter(...); multiList = multiList.filter(...)
RemoveBoth ==
  /\ rmStage < 2
  /\ rmSingle' = removeByAppid(rmSingle, rmId)
  /\ rmMulti' = removeByAppid(rmMulti, rmId)
  /\ rmStage' = rmStage + 1
  /\ UNCHANGED <<rmIn, rmId, botVars, clsVars>>

NextRemove == RemoveBoth
SpecRemove == InitRemove /\ [][NextRemove]_vars

\* The entries of `before` whose appid is not id, in their order, are `after`.
othersInOrder(before, after, id) ==
  LET kept == { k \in 1..Len(before) : before[k].appid # id }
      nth(j) == CHOOSE k \in kept : Cardinality({ x \in kept : x <= k }) = j
  IN /\ Len(after) = Cardinality(kept)
     /\ \A j \in 1..Len(after) : after[j] = before[nth(j)]

\* C10: removal by catalog id is idempotent on both collections: a second
\* removal in succession changes neither collection, removing an absent id
\* changes nothing, and the entries with other ids keep their relative order.
C10_RemovalIdempotent ==
  [][ /\ (rmStage = 1 => rmSingle' = rmSingle /\ rmMulti' = rmMulti)
      /\ (~hasAppid(rmSingle, rmId) => rmSingle' = rmSingle)
      /\ (~hasAppid(rmMulti, rmId) => rmMulti' = rmMulti)
      /\ othersInOrder(rmSingle, rmSingle', rmId)
      /\ othersInOrder(rmMulti, rmMulti', rmId) ]_vars
\* Two removals were applied to collections that both held the id, one of
\* them twice, next to an entry with another id.
C10_Witness ==
  /\ rmStage = 2
  /\ hasAppid(rmIn.single, rmId) /\ hasAppid(rmIn.multi, rmId)
  /\ Len(rmIn.single) = 2 /\ rmIn.single[1].appid = rmIn.single[2].appid
  /\ Len(rmIn.multi) = 2 /\ Len(rmMulti) = 1

\* ----------------------------------------- steps, as seen in two states
\* Handler i ended in this step: its record is gone and lastOut' is its outcome.
Ended(i) == i \in Running /\ delivered' = delivered /\ handlers' = removeAt(handlers, i)
\* Handler i went on to another await in this step.
Moved(i) == i \in Running /\ Len(handlers') = Len(handlers) /\ handlers'[i] # handlers[i]
StepOf(i) == Ended(i) \/ Moved(i)
\* An event was delivered in this step.
Delivered == delivered' = delivered + 1
\* ... and its handler ended without awaiting anything,
EndedAtOnce == Delivered /\ handlers' = handlers
\* ... or is now in flight, as the last record of handlers'.
Started == Delivered /\ Len(handlers') = Len(handlers) + 1
NewHandler == handlers'[Len(handlers')]
HandlerEnds == EndedAtOnce \/ \E i \in Running : Ended(i)

nonBotReactors(m) == { u \in reactorsOf(m) : ~IsBotUser(u) }
deletedNow(m) == ~messages[m].deleted /\ messages'[m].deleted
rangeOf(seq) == { seq[k] : k \in 1..Len(seq) }
hasLink(m) == appidMatch(messages[m].url) # NoMatch
msgAppid(m) == parseInt(appidMatch(messages[m].url))
absent(single, multi, appid) == ~hasAppid(single, appid) /\ ~hasAppid(multi, appid)

\* C1 as claimed: whenever the monitor deletes an announcement, every
\* eligible human member of the guild at that moment is among its reactors.
C1_AllHumansReacted ==
  [][ \A m \in 1..Len(messages) :
        deletedNow(m) => \A u \in members' : isHuman(u) => u \in reactorsOf(m) ]_vars

\* C1 amended: the monitor deletes an announcement, and removes entries,
\* only in a handler whose count of distinct non-bot reactors of the message
\* was at least the number of eligible humans in the member list it
\* resolved (the fetched list, or the cached one when the fetch failed).
C1_CountQuorum ==
  [][ /\ \A m \in 1..Len(messages) :
           deletedNow(m) =>
             \E i \in Running :
               /\ handlers[i].pc = "delete_wait" /\ handlers[i].msg = m /\ Ended(i)
               /\ Cardinality(handlers[i].uniq) >= handlers[i].total
               /\ handlers[i].uniq \subseteq nonBotReactors(m)
      /\ (~(rangeOf(singleList) \subseteq rangeOf(singleList')
            /\ rangeOf(multiList) \subseteq rangeOf(multiList'))) =>
             \E i \in Running :
               /\ handlers[i].pc = "reactors_wait" /\ Moved(i)
               /\ handlers'[i].pc \in {"create_wait", "delete_wait"}
               /\ Cardinality(handlers'[i].uniq) >= handlers'[i].total
               /\ handlers'[i].uniq \subseteq nonBotReactors(handlers[i].msg)
      /\ \A i \in Running :
           (handlers[i].pc = "members_wait" /\ Moved(i)) =>
             handlers'[i].total \in {countHumans(members), countHumans(memberCache)} ]_vars
\* The monitor has deleted an announcement.
C1_Witness ==
  /\ lastOut = "deleted"
  /\ \E m \in 1..Len(messages) : messages[m].deleted /\ hasLink(m)

\* C2: a reaction handler that finds fewer distinct non-bot reactors on the
\* message than it counted eligible humans removes no entry, rewrites no
\* file, creates no voice channel and does not delete the message.
C2_QuorumGate ==
  [][ \A i \in Running :
        ( /\ handlers[i].pc = "reactors_wait"
          /\ StepOf(i)
          /\ Cardinality(nonBotReactors(handlers[i].msg)) < handlers[i].total )
        => /\ UNCHANGED <<storeVars, voiceChannels, messages>>
           /\ Moved(i) => handlers'[i].pc = "reactors_wait"
           /\ Ended(i) => lastOut' \in {"no_quorum", "fetch_rejected"} ]_vars
\* A handler ended below quorum with the entry and its announcement in place.
C2_Witness ==
  /\ lastOut = "no_quorum"
  /\ multiList # <<>>
  /\ \E m \in 1..Len(messages) :
       /\ hasLink(m) /\ ~messages[m].deleted
       /\ Cardinality(nonBotReactors(m)) < countHumans(members)

\* C3 as claimed: when a handler that saw quorum for an announcement with
\* catalog id X finishes, X is in neither collection and the message is
\* deleted (or its deletion failed and was swallowed).
C3_AbsentAtFinish ==
  [][ \A i \in Running :
        (handlers[i].pc = "delete_wait" /\ hasLink(handlers[i].msg) /\ Ended(i))
        => /\ absent(singleList', multiList', msgAppid(handlers[i].msg))
           /\ messages'[handlers[i].msg].deleted \/ lastOut' = "delete_failed" ]_vars

\* C3 amended: the removal step of a handler that saw quorum leaves X in
\* neither collection, in memory and on disk; until that handler finishes X
\* comes back only by the insert of a submission in flight; the handler
\* always goes on to the deletion, whose failure is swallowed.
C3_RemovedOnQuorum ==
  [][ \A i \in Running :
        (handlers[i].kind = "react" /\ hasLink(handlers[i].msg)) =>
          LET X == msgAppid(handlers[i].msg) IN
          /\ ( /\ handlers[i].pc = "reactors_wait" /\ Moved(i)
               /\ handlers'[i].pc \in {"create_wait", "delete_wait"} )
             => /\ absent(singleList', multiList', X)
                /\ absent(diskSingle', diskMulti', X)
          /\ ( /\ handlers[i].pc \in {"create_wait", "delete_wait"}
               /\ absent(singleList, multiList, X)
               /\ ~absent(singleList', multiList', X) )
             => \E j \in Running :
                  /\ j # i /\ handlers[j].pc = "details_wait"
                  /\ handlers[j].game.appid = X
                  /\ Moved(j) /\ handlers'[j].pc = "post_channel"
          /\ (handlers[i].pc = "create_wait" /\ StepOf(i))
             => Moved(i) /\ handlers'[i].pc = "delete_wait"
          /\ (handlers[i].pc = "delete_wait" /\ StepOf(i))
             => /\ Ended(i)
                /\ lastOut' \in {"deleted", "delete_failed"}
                /\ lastOut' = "deleted" => messages'[handlers[i].msg].deleted ]_vars
\* A handler that saw quorum for a multiplayer entry is about to delete the
\* announcement: the voice channel exists and the id is in neither collection.
C3_Witness ==
  \E i \in Running :
    /\ handlers[i].pc = "delete_wait" /\ hasLink(handlers[i].msg)
    /\ voiceChannels # <<>>
    /\ absent(singleList, multiList, msgAppid(handlers[i].msg))
    /\ absent(diskSingle, diskMulti, msgAppid(handlers[i].msg))

\* C4: a submission that resolves to X and is classified into a collection
\* that holds X is answered with the duplicate warning and inserts nothing;
\* one classified into the other collection is inserted there, whether or
\* not the first collection holds X.
C4_Dedup ==
  [][ \A i \in Running, cats \in CategoryAnswers :
        (DetailsOk(i, cats) /\ getGameType(cats) # "unknown") =>
          LET X == handlers[i].game.appid
              type == getGameType(cats)
              own == IF type = "single" THEN singleList ELSE multiList
          IN IF hasAppid(own, X)
             THEN /\ Ended(i) /\ lastOut' = "duplicate"
                  /\ UNCHANGED <<singleList, multiList>>
             ELSE /\ Moved(i)
                  /\ type = "single" =>
                       /\ singleList' = Append(singleList, newEntry(handlers[i].game))
                       /\ multiList' = multiList
                  /\ type = "multi" =>
                       /\ multiList' = Append(multiList, newEntry(handlers[i].game))
                       /\ singleList' = singleList ]_vars
\* The same id sits in both collections, and a further submission of it was
\* turned down as a duplicate.
C4_Witness ==
  /\ lastOut = "duplicate"
  /\ hasAppid(singleList, ItemA.id)
  /\ hasAppid(multiList, ItemA.id)

\* The announcements outstanding in a collection's display channel for an appid.
outstanding(which, appid) ==
  { m \in 1..Len(messages) :
      /\ ~messages[m].deleted /\ messages[m].channel = which
      /\ hasLink(m) /\ msgAppid(m) = appid }
\* C5: with no handler in flight, every entry of singleList and of multiList
\* has exactly one outstanding announcement message.
C5_EntryHasAnnouncement ==
  handlers = <<>> =>
    /\ \A k \in 1..Len(singleList) : Cardinality(outstanding("single", singleList[k].appid)) = 1
    /\ \A k \in 1..Len(multiList) : Cardinality(outstanding("multi", multiList[k].appid)) = 1

\* C6: when the detail fetch of a submission fails with a transport error,
\* the handler ends with the failure reply and the step changes neither
\* the collections, nor their files, nor the cache, nor its file.
C6_FailureIsolation ==
  [][ \A i \in Running :
        DetailsNull(i, "error") =>
          /\ Ended(i) /\ lastOut' = "no_details"
          /\ UNCHANGED <<storeVars, cacheVars>> ]_vars
\* After a first start, a search was answered and cached and the detail
\* fetch then failed: the lists are as they were.
C6_Witness ==
  /\ lastOut = "no_details"
  /\ messages[1] = PlainMessage
  /\ steamCache # EmptyCache
  /\ singleList = <<>> /\ multiList = <<>>

ValidationFailures == {"wrong_channel", "not_found", "no_details", "unknown_type", "duplicate"}
\* C7: no step of a submission that ends in a validation or resolution
\* failure changes the collections or their files; a wrong-channel
\* submission also starts no catalog call and leaves the cache alone.
C7_NoStateChange ==
  [][ /\ (HandlerEnds /\ lastOut' \in ValidationFailures) => UNCHANGED storeVars
      /\ Delivered => UNCHANGED storeVars
      /\ \A i \in Running :
           (handlers[i].pc = "search_wait" /\ StepOf(i)) => UNCHANGED storeVars
      /\ \A q \in Queries :
           Submit(q, FALSE) =>
             /\ EndedAtOnce /\ lastOut' = "wrong_channel"
             /\ handlers' = handlers
             /\ UNCHANGED <<storeVars, cacheVars>> ]_vars
\* A submission was turned down for its unknown type while an entry was stored.
C7_Witness ==
  /\ lastOut = "unknown_type"
  /\ multiList # <<>>
  /\ diskMulti = multiList

\* What a search for q that starts on a cache hit does: no search call is
\* started and the caller goes on with exactly the cached value.
hitAnswered(q) ==
  LET cached == steamCache[cacheKey(q)]
      g == pickGame(cached, q)
  IN /\ (Autocomplete(q) => EndedAtOnce /\ lastOut' = "responded")
     /\ (Submit(q, TRUE) =>
           IF g = NoGame THEN EndedAtOnce /\ lastOut' = "not_found"
           ELSE /\ Started /\ NewHandler.pc = "details_wait" /\ NewHandler.game = g)
     /\ ((Autocomplete(q) \/ Submit(q, TRUE)) => UNCHANGED cacheVars)
\* A successful answer is stored under the normalized query: every query
\* with the same lower-cased, trimmed text then hits it.
answerCached ==
  \A i \in Running, items \in SearchAnswers :
    SearchOk(i, items) =>
      \A q \in Queries :
        trim(toLowerCase(q)) = trim(toLowerCase(handlers[i].query)) =>
          /\ cacheHit(steamCache', cacheKey(q))
          /\ steamCache'[cacheKey(q)] = searchResults(items)
          /\ diskCache' = steamCache'

\* C8 as claimed: once a search has cached a successful result, every later
\* search of the same normalized query is answered from the cache without a
\* call, and the cached result never changes.
C8_CachedForever ==
  [][ /\ \A q \in Queries : cacheHit(steamCache, cacheKey(q)) => hitAnswered(q)
      /\ answerCached
      /\ \A k \in DOMAIN steamCache :
           k \in DOMAIN steamCache' /\ steamCache'[k] = steamCache[k] ]_vars

\* C8 amended: a later search of the same normalized query is answered
\* from the cache without a call, with the value cached at that time; a
\* cached key is never dropped, and its value changes only when a search
\* call for that key that was in flight is answered successfully.
C8_CacheRoundTrip ==
  [][ /\ \A q \in Queries : cacheHit(steamCache, cacheKey(q)) => hitAnswered(q)
      /\ answerCached
      /\ \A k \in DOMAIN steamCache :
           /\ k \in DOMAIN steamCache'
           /\ steamCache'[k] # steamCache[k] =>
                \E i \in Running :
                  /\ handlers[i].pc = "search_wait"
                  /\ cacheKey(handlers[i].query) = k
                  /\ StepOf(i) ]_vars
\* After a restart with the answer for "A" cached, a submission typed "a "
\* has got that answer without a search call and awaits the details.
C8_Witness ==
  /\ messages[1].channel = "multi"
  /\ \E i \in Running :
       /\ handlers[i].pc = "details_wait"
       /\ handlers[i].query = <<"a", " ">>
       /\ handlers[i].game.appid = ItemA.id

\* C9: a failed search hands its caller an empty sequence and changes
\* neither the cache nor its file; a search whose key is not cached starts
\* a new call.
C9_FailureNotCached ==
  [][ /\ \A i \in Running :
           SearchFail(i) =>
             /\ UNCHANGED cacheVars
             /\ Ended(i)
             /\ lastOut' = IF handlers[i].kind = "auto" THEN "responded" ELSE "not_found"
      /\ \A q \in Queries :
           ((Submit(q, TRUE) \/ Autocomplete(q)) /\ ~cacheHit(steamCache, cacheKey(q))) =>
             /\ Started
             /\ NewHandler.pc = "search_wait"
             /\ NewHandler.query = q ]_vars
\* A submission's search failed, nothing was cached, and another search has
\* a call in flight.
C9_Witness ==
  /\ steamCache = EmptyCache /\ diskCache = EmptyCache
  /\ lastOut = "not_found"
  /\ delivered = 2
  /\ Len(handlers) = 1
  /\ handlers[1].pc = "search_wait"

\* --------------------------------------- the classification, taken alone
\* getGameType applied to category lists drawn from a bounded set of tags,
\* followed by lines 155-168 on collections drawn from a small set.
MultiPlayerTag == <<"M","u","l","t","i","-","p","l","a","y","e","r">>
CrossPlatformTag == <<"C","r","o","s","s","-","P","l","a","t","f","o","r","m"," ",
                      "M","u","l","t","i","p","l","a","y","e","r">>
LanCoopTag == <<"L","A","N"," ","C","O","-","O","P">>
SinglePlayerUpperTag == <<"S","I","N","G","L","E","-","P","L","A","Y","E","R">>
SinglePlayerVrTag == <<"S","i","n","g","l","e","-","p","l","a","y","e","r"," ","V","R">>
MmoTag == <<"M","M","O">>
ClsTags == { SinglePlayerTag, SinglePlayerUpperTag, SinglePlayerVrTag, MultiPlayerTag,
             OnlineCoopTag, LanCoopTag, CrossPlatformTag, MmoTag }
ClsInputs == UNION { [1..n -> ClsTags] : n \in 0..MaxTags }
ClsLists == { <<>>, <<EntryA>>, <<EntryB>> }
\* The game the classified submission resolved to.
ClsGame == [name |-> ItemA.name, appid |-> ItemA.id]

InitClassify ==
  /\ InitFresh
  /\ InitGuild
  /\ RmIdle
  /\ clsIn \in ClsInputs
  /\ clsType = "none"
  /\ clsSingle \in ClsLists
  /\ clsMulti \in ClsLists

\* const type = getGameType(details.categories), then the unknown exit, the
\* dup test and the push (lines 154-168).
Classify ==
  /\ clsType = "none"
  /\ LET type == getGameType(clsIn)
         dup == type # "unknown" /\ isDup(type, clsSingle, clsMulti, ClsGame.appid)
     IN /\ clsType' = type
        /\ clsSingle' = storeAfter("single", type, dup, clsSingle, newEntry(ClsGame))
        /\ clsMulti' = storeAfter("multi", type, dup, clsMulti, newEntry(ClsGame))
  /\ UNCHANGED <<clsIn, botVars, rmVars>>

NextClassify == Classify
SpecClassify == InitClassify /\ [][NextClassify]_vars

\* A tag that, lower-cased, contains one of the multiplayer words.
multiIndicating(tag) ==
  \E needle \in {MultiNeedle, CoopNeedle, CrossNeedle} : includes(toLowerCase(tag), needle)
hasMultiTag(cats) == \E k \in 1..Len(cats) : multiIndicating(cats[k])
hasSingleTag(cats) == \E k \in 1..Len(cats) : toLowerCase(cats[k]) = SingleNeedle

\* C11: a category list in which some tag, lower-cased, contains
\* "multiplayer", "co-op" or "cross-platform" is classified multi, whether
\* or not it also holds a single-player tag.
C11_MultiWins ==
  (clsType # "none" /\ hasMultiTag(clsIn)) => clsType = "multi"
\* A list with both a single-player tag and a multiplayer tag was classified.
C11_Witness ==
  /\ clsType = "multi"
  /\ hasSingleTag(clsIn)
  /\ hasMultiTag(clsIn)

\* C12: without a multiplayer tag, a list with a tag equal to "single-player"
\* (ignoring case) is classified single and any other list unknown; the
\* result is never "both"; and a submission classified unknown is pushed to
\* neither collection.
C12_SingleOrUnknown ==
  [][ clsType' # clsType =>
        /\ (~hasMultiTag(clsIn) /\ hasSingleTag(clsIn) => clsType' = "single")
        /\ (~hasMultiTag(clsIn) /\ ~hasSingleTag(clsIn) => clsType' = "unknown")
        /\ clsType' \in {"single", "multi", "unknown"}
        /\ (clsType' = "unknown" => clsSingle' = clsSingle /\ clsMulti' = clsMulti) ]_vars
\* A list whose only single-player tag is a longer tag that contains the
\* word was classified unknown, with the game in neither collection.
C12_Witness ==
  /\ clsType = "unknown"
  /\ clsIn # <<>>
  /\ \E k \in 1..Len(clsIn) : clsIn[k] = SinglePlayerVrTag
  /\ absent(clsSingle, clsMulti, ClsGame.appid)

\* ------------------------------------------- the monitor's message filter
\* The message carries no embed at all: no link and no title.
noEmbed(m) == messages[m].url = <<>> /\ messages[m].title = <<>>
onMessage(i, m) == i \in Running /\ handlers[i].kind = "react" /\ handlers[i].msg = m

\* C13 as claimed: a reaction on a message without an announcement embed
\* never gets the message deleted and never changes the collections.
C13_OnlyAnnouncements ==
  [][ \A m \in 1..Len(messages) :
        noEmbed(m) =>
          /\ ~deletedNow(m)
          /\ \A i \in Running :
               (onMessage(i, m) /\ StepOf(i)) =>
                 singleList' = singleList /\ multiList' = multiList ]_vars

\* ------------------------------------------------ voice channel provisioning
sameIgnoringCase(a, b) == toLowerCase(a) = toLowerCase(b)

\* C14 as claimed: a voice channel is created only when the guild has no
\* voice channel whose name equals the new one ignoring case, so no two
\* voice channels of the guild ever share a name ignoring case.
C14_OneChannelPerName ==
  [][ voiceChannels' # voiceChannels =>
        /\ Len(voiceChannels') = Len(voiceChannels) + 1
        /\ \A k \in 1..Len(voiceChannels) :
             ~sameIgnoringCase(voiceChannels[k], voiceChannels'[Len(voiceChannels')]) ]_vars

\* ------------------------------------------------ persistence and replies
\* C15 as claimed: whenever no handler is in flight, the durable
\* collections equal the in-memory ones, every insert and every removal
\* having been followed by saveLists before its handler ended.
C15_DurableWhenIdle ==
  handlers = <<>> => (diskSingle = singleList /\ diskMulti = multiList)

\* The replies of the wishlist command: the five failure replies and the
\* acknowledgement.
FailureReplies == {"wrong_channel", "not_found", "no_details", "unknown_type", "duplicate"}
Replies == FailureReplies \cup {"ack"}

\* C16 as claimed: a submission that ends has replied exactly once, with a
\* failure reply or with the acknowledgement, and the acknowledgement comes
\* only once the entry is stored and its announcement sent.
C16_AlwaysOneReply ==
  [][ \A i \in Running :
        (handlers[i].kind = "submit" /\ Ended(i)) =>
          /\ lastOut' \in Replies
          /\ lastOut' = "ack" =>
               /\ hasAppid(IF handlers[i].type = "single" THEN singleList' ELSE multiList',
                           handlers[i].game.appid)
               /\ Len(messages') = Len(messages) + 1 ]_vars

\* ------------------------------------------- quorum on a message without id
\* C17: on quorum for a message whose embed link yields no catalog id, the
\* handler changes neither collection, rewrites no file, creates no voice
\* channel, and goes on to delete the message: the delete can succeed, and
\* the handler ends having deleted the message or having swallowed the
\* delete's failure.
C17_NoIdStillDeletes ==
  [][ \A i \in Running :
        (handlers[i].kind = "react" /\ ~hasLink(handlers[i].msg)) =>
          /\ StepOf(i) =>
               /\ singleList' = singleList /\ multiList' = multiList
               /\ diskSingle' = diskSingle /\ diskMulti' = diskMulti
               /\ voiceChannels' = voiceChannels
          /\ (handlers[i].pc = "reactors_wait" /\ Moved(i)) =>
               handlers'[i].pc \in {"reactors_wait", "delete_wait"}
          /\ (handlers[i].pc = "reactors_wait" /\ Ended(i)) =>
               lastOut' \in {"no_quorum", "fetch_rejected"}
          /\ (handlers[i].pc = "delete_wait" /\ ~messages[handlers[i].msg].deleted) =>
               ENABLED (MessageDelete(i, TRUE) /\ messages'[handlers[i].msg].deleted)
          /\ (handlers[i].pc = "delete_wait" /\ StepOf(i)) =>
               /\ Ended(i)
               /\ \/ lastOut' = "deleted" /\ messages'[handlers[i].msg].deleted
                  \/ lastOut' = "delete_failed" /\ messages' = messages ]_vars
\* A message without embed was deleted on quorum while the collections held
\* an entry.
C17_Witness ==
  /\ \E m \in 1..Len(messages) : noEmbed(m) /\ messages[m].deleted
  /\ lastOut = "deleted"
  /\ singleList # <<>> \/ multiList # <<>>

\* ------------------------------------------------ uniqueness under interleaving
noRepeatedId(list) ==
  \A j, k \in 1..Len(list) : (j # k) => list[j].appid # list[k].appid
\* A submission in flight that pushed its entry of appid to the collection t.
hasPushed(h, t, appid) ==
  /\ h.kind = "submit"
  /\ h.pc \in {"post_channel", "post_details", "post_send"}
  /\ h.type = t
  /\ h.game.appid = appid

\* C18: in every reachable state, under every interleaving of the handlers
\* in flight, neither singleList nor multiList holds two entries with the
\* same catalog id.
C18_UniquePerCollection ==
  noRepeatedId(singleList) /\ noRepeatedId(multiList)
\* After a first start, two submissions that resolved to the same id were in
\* flight at once; one has pushed the only entry there is and is still
\* posting, the other has ended with the duplicate reply.
C18_Witness ==
  /\ delivered = 2
  /\ Len(handlers) = 1
  /\ diskSingle = <<>> /\ diskMulti = <<>>
  /\ Len(singleList) + Len(multiList) = 1
  /\ \E t \in {"single", "multi"} : hasPushed(handlers[1], t, ItemA.id)
  /\ lastOut = "duplicate"

\* ------------------------------------------- two completions of one message
\* Handler i passes the quorum test in this step.
quorumStep(i) ==
  /\ handlers[i].kind = "react"
  /\ handlers[i].pc = "reactors_wait"
  /\ Moved(i)
  /\ handlers'[i].pc \in {"create_wait", "delete_wait"}
pastQuorum(h, m) == h.kind = "react" /\ h.msg = m /\ h.pc \in {"create_wait", "delete_wait"}
CatalogIds == {ItemA.id, ItemB.id}

\* C19: the membership test and the dual removal of a reaction handler run
\* in one step, so a handler that observes quorum leaves the id in neither
\* collection; it goes on to create the voice channel only if it found the
\* id in multiList; a handler that finds the id absent changes neither
\* collection and goes straight to the delete; an id absent from multiList
\* comes back only through a submission's push; and a handler at the delete
\* ends there, a failure of the delete swallowed.  Hence of two handlers for
\* one multiplayer announcement that both observe quorum with no submission
\* pushing in between, only the first finds the id and may create the channel.
C19_OneCreator ==
  [][ /\ \A i \in Running :
           (quorumStep(i) /\ hasLink(handlers[i].msg)) =>
             LET X == msgAppid(handlers[i].msg) IN
             /\ absent(singleList', multiList', X)
             /\ handlers'[i].pc = "create_wait" => hasAppid(multiList, X)
             /\ ~hasAppid(multiList, X) =>
                  /\ multiList' = multiList
                  /\ handlers'[i].pc = "delete_wait"
             /\ absent(singleList, multiList, X) =>
                  singleList' = singleList /\ multiList' = multiList
      /\ \A X \in CatalogIds :
           (~hasAppid(multiList, X) /\ hasAppid(multiList', X)) =>
             \E j \in Running :
               handlers[j].kind = "submit" /\ handlers[j].pc = "details_wait" /\ Moved(j)
      /\ \A i \in Running :
           (handlers[i].kind = "react" /\ handlers[i].pc = "delete_wait" /\ StepOf(i)) =>
             /\ Ended(i)
             /\ lastOut' \in {"deleted", "delete_failed"}
             /\ singleList' = singleList /\ multiList' = multiList ]_vars
\* Two handlers for the same multiplayer announcement have both observed
\* quorum: the first, which found the id, awaits the channel's creation; the
\* second found the id gone and awaits the delete.
C19_Witness ==
  /\ Len(handlers) = 2
  /\ handlers[1].msg = handlers[2].msg
  /\ pastQuorum(handlers[1], handlers[1].msg) /\ handlers[1].pc = "create_wait"
  /\ pastQuorum(handlers[2], handlers[1].msg) /\ handlers[2].pc = "delete_wait"
  /\ handlers[1].total > 0 /\ handlers[2].total > 0
  /\ hasLink(handlers[1].msg)
  /\ ~messages[handlers[1].msg].deleted
  /\ absent(singleList, multiList, msgAppid(handlers[1].msg))

====
